---- MODULE Spec2Model ----
(***************************************************************************)
(* Model of verify_setup.py: main() runs six checks one after another,     *)
(* collects their boolean results in the list `checks`, then runs          *)
(* check_optional_tools() and returns 0 when every collected check is      *)
(* true, 1 otherwise.  The inspected environment (interpreter version,     *)
(* importable modules) is fixed when the process starts; the answers of    *)
(* the file system and of the external commands are read when a check      *)
(* asks for them.                                                          *)
(***************************************************************************)
EXTENDS Integers, Sequences, FiniteSets, TLC

\* ---------------------------------------------------------------- bounds
MaxMajor == 4
MaxMinor == 10
MaxMissing == 1

\* ------------------------------------------------------ program constants
MinMajor == 3
MinMinor == 9

dependencies == <<"sys", "pathlib", "subprocess", "importlib">>

optional_deps ==
    <<"numpy", "pandas", "pydantic", "aiohttp", "openai", "typer", "rich", "loguru">>

config_locations == <<"~/.metagpt/config2.yaml", "config/config2.yaml">>

Range(s) == {s[i] : i \in 1..Len(s)}

Modules == Range(dependencies) \cup Range(optional_deps) \cup {"metagpt"}

\* sys.version_info (major, minor) pairs around the required minimum
Versions == ((MinMajor - 1)..MaxMajor) \X ((MinMinor - 1)..MaxMinor)

\* what subprocess.run can do: return code 0, return code # 0,
\* raise FileNotFoundError, raise TimeoutExpired
Outcomes == {"ok", "nonzero", "notfound", "timeout"}

VARIABLES
    pc,              \* next statement of main(): the check to call, "verdict", "done", "raised"
    checks,          \* the list `checks` built in main()
    version_info,    \* sys.version_info as <<major, minor>>
    importable,      \* the modules importlib can resolve
    optional_count,  \* the ratio numerator printed by check_core_dependencies
    outcome,         \* what each external command did; "none" when it was not run
    config_exists,   \* config_path.exists() for each location, <<>> before the check
    config_report,   \* the per-path line printed by check_config_files
    details,         \* the result line a check printed
    fails,           \* the functions that returned False and the tools reported as failed
    hints,           \* the functions and tools that printed a remediation line
    trace,           \* the checks and external commands started, in order
    ret              \* <<>> until main() returns, then <<exit code>>

vars == <<pc, checks, version_info, importable, optional_count, outcome,
          config_exists, config_report, details, fails, hints, trace, ret>>

Commands == {"metagpt", "npm", "mmdc", "playwright"}

\* ------------------------------------------------------- pure functions

\* line 21: version.major == 3 and version.minor >= 9
CheckPythonVersion(v) == v[1] = MinMajor /\ v[2] >= MinMinor

\* line 34
CheckVirtualEnv(has_real_prefix, has_base_prefix, prefix_differs) ==
    has_real_prefix \/ (has_base_prefix /\ prefix_differs)

\* lines 46-52: ImportError is caught and turned into False
CheckPackageImport(package_name, env) == package_name \in env

\* variant: all_good is overwritten by the result of each import
RECURSIVE RequiredLoopLast(_, _, _)
RequiredLoopLast(env, i, all_good) ==
    IF i > Len(dependencies) THEN all_good
    ELSE RequiredLoopLast(env, i + 1, CheckPackageImport(dependencies[i], env))

\* lines 79-82: the loop over the required dependencies
RECURSIVE RequiredLoop(_, _, _)
RequiredLoop(env, i, all_good) ==
    IF i > Len(dependencies) THEN all_good
    ELSE RequiredLoop(env, i + 1,
                      IF ~CheckPackageImport(dependencies[i], env) THEN FALSE ELSE all_good)

\* lines 85-88: the loop over the optional dependencies
RECURSIVE OptionalLoop(_, _, _)
OptionalLoop(env, i, count) ==
    IF i > Len(optional_deps) THEN count
    ELSE OptionalLoop(env, i + 1,
                      IF CheckPackageImport(optional_deps[i], env) THEN count + 1 ELSE count)

\* lines 80-88: some call of check_package_import printed its failure line
AnyImportFailed(env) ==
    \E p \in Range(dependencies) \cup Range(optional_deps) : ~CheckPackageImport(p, env)

\* lines 129-138: the return value of check_console_script
ConsoleResult(o) == o = "ok"

\* lines 130, 133, 136: the line check_console_script prints
ConsoleDetail(o) ==
    IF o = "ok" THEN "'metagpt' command is available"
    ELSE IF o = "nonzero" THEN "'metagpt' command failed"
    ELSE "'metagpt' command not found"

\* variant: the remediation is printed for every failure
ConsoleHintOnAnyFailure(o) == o # "ok"

\* line 137: the remediation is printed in the except branch only
ConsoleHint(o) == o \in {"notfound", "timeout"}

\* variant: the loop stops at the first location that exists
RECURSIVE ConfigLoopBreak(_, _, _, _)
ConfigLoopBreak(ex, i, found_config, lines) ==
    IF i > Len(config_locations) \/ found_config THEN <<found_config, lines>>
    ELSE IF ex[i]
         THEN ConfigLoopBreak(ex, i + 1, TRUE, Append(lines, "Config found"))
         ELSE ConfigLoopBreak(ex, i + 1, found_config, Append(lines, "Config not found"))

\* lines 150-156: the loop over config_locations; returns <<found_config, lines>>
RECURSIVE ConfigLoop(_, _, _, _)
ConfigLoop(ex, i, found_config, lines) ==
    IF i > Len(config_locations) THEN <<found_config, lines>>
    ELSE IF ex[i]
         THEN ConfigLoop(ex, i + 1, TRUE, Append(lines, "Config found"))
         ELSE ConfigLoop(ex, i + 1, found_config, Append(lines, "Config not found"))

\* lines 191, 197, 211: check_optional_tools catches FileNotFoundError only
ToolCaught(o) == o # "timeout"

\* variant: mmdc is probed whenever npm was started
MmdcAfterAnyExit(npm) == npm \in {"ok", "nonzero"}

\* line 177: mmdc is probed inside the branch npm returncode == 0
MmdcGated(npm) == npm = "ok"

\* lines 178, 196, 198-199 / 187-193 / 208-213: failure and remediation lines
ToolFails(tool, o) == o \in {"nonzero", "notfound"}

ToolHint(tool, o) ==
    IF tool = "mmdc" THEN o \in {"nonzero", "notfound"} ELSE o = "notfound"

\* line 234: sum(checks)
RECURSIVE Sum(_)
Sum(s) == IF s = <<>> THEN 0 ELSE (IF Head(s) THEN 1 ELSE 0) + Sum(Tail(s))

\* variant: only the version, core dependency and package checks count
ExitCodeRequiredOnly(cs) == IF cs[1] /\ cs[3] /\ cs[4] THEN 0 ELSE 1

\* lines 234-247
ExitCode(cs) == IF Sum(cs) = Len(cs) THEN 0 ELSE 1

\* ------------------------------------------------------------------ Init

InitCommon ==
    /\ pc = "check_python_version"
    /\ checks = <<>>
    /\ optional_count = 0
    /\ outcome = [c \in Commands |-> "none"]
    /\ config_exists = <<>>
    /\ config_report = <<>>
    /\ details = [f \in {"check_metagpt", "check_console_script"} |-> "none"]
    /\ fails = {}
    /\ hints = {}
    /\ trace = <<>>
    /\ ret = <<>>

Init ==
    /\ InitCommon
    /\ version_info \in Versions
    /\ importable \in {Modules \ m : m \in {s \in SUBSET Modules : Cardinality(s) <= MaxMissing}}

\* the start states used to examine check_core_dependencies on every
\* combination of resolvable modules
InitCore ==
    /\ InitCommon
    /\ version_info = <<MinMajor, MinMinor>>
    /\ importable \in SUBSET Modules

\* --------------------------------------------------------------- actions

Mark(set, name, flag) == IF flag THEN set \cup {name} ELSE set

check_python_version ==
    /\ pc = "check_python_version"
    /\ LET r == CheckPythonVersion(version_info) IN
        /\ checks' = Append(checks, r)
        /\ fails' = Mark(fails, "check_python_version", ~r)
    /\ trace' = Append(trace, "check_python_version")
    /\ pc' = "check_virtual_env"
    /\ UNCHANGED <<version_info, importable, optional_count, outcome, config_exists,
                   config_report, details, hints, ret>>

check_virtual_env ==
    /\ pc = "check_virtual_env"
    /\ \E has_real_prefix \in BOOLEAN, has_base_prefix \in BOOLEAN, prefix_differs \in BOOLEAN :
        LET r == CheckVirtualEnv(has_real_prefix, has_base_prefix, prefix_differs) IN
        /\ checks' = Append(checks, r)
        /\ fails' = Mark(fails, "check_virtual_env", ~r)
        /\ hints' = Mark(hints, "check_virtual_env", ~r)
    /\ trace' = Append(trace, "check_virtual_env")
    /\ pc' = "check_core_dependencies"
    /\ UNCHANGED <<version_info, importable, optional_count, outcome, config_exists,
                   config_report, details, ret>>

check_core_dependencies ==
    /\ pc = "check_core_dependencies"
    /\ checks' = Append(checks, RequiredLoop(importable, 1, TRUE))
    /\ optional_count' = OptionalLoop(importable, 1, 0)
    /\ fails' = Mark(fails, "check_package_import", AnyImportFailed(importable))
    /\ trace' = Append(trace, "check_core_dependencies")
    /\ pc' = "check_metagpt"
    /\ UNCHANGED <<version_info, importable, outcome, config_exists, config_report,
                   details, hints, ret>>

check_metagpt ==
    /\ pc = "check_metagpt"
    /\ LET r == "metagpt" \in importable IN
        /\ checks' = Append(checks, r)
        /\ fails' = Mark(fails, "check_metagpt", ~r)
        /\ hints' = Mark(hints, "check_metagpt", ~r)
        /\ \E has_version \in BOOLEAN :
            details' = [details EXCEPT !["check_metagpt"] =
                          IF ~r THEN "MetaGPT module not available"
                          ELSE IF has_version THEN "Version" ELSE "Development"]
    /\ trace' = Append(trace, "check_metagpt")
    /\ pc' = "check_console_script"
    /\ UNCHANGED <<version_info, importable, optional_count, outcome, config_exists,
                   config_report, ret>>

check_console_script ==
    /\ pc = "check_console_script"
    /\ \E o \in Outcomes :
        /\ outcome' = [outcome EXCEPT !["metagpt"] = o]
        /\ checks' = Append(checks, ConsoleResult(o))
        /\ details' = [details EXCEPT !["check_console_script"] = ConsoleDetail(o)]
        /\ fails' = Mark(fails, "check_console_script", ~ConsoleResult(o))
        /\ hints' = Mark(hints, "check_console_script", ConsoleHint(o))
    /\ trace' = Append(trace, "check_console_script")
    /\ pc' = "check_config_files"
    /\ UNCHANGED <<version_info, importable, optional_count, config_exists,
                   config_report, ret>>

check_config_files ==
    /\ pc = "check_config_files"
    /\ \E ex \in [1..Len(config_locations) -> BOOLEAN] :
        LET r == ConfigLoop(ex, 1, FALSE, <<>>) IN
        /\ config_exists' = ex
        /\ config_report' = r[2]
        /\ checks' = Append(checks, r[1])
        /\ fails' = Mark(fails, "check_config_files", ~r[1])
        /\ hints' = Mark(hints, "check_config_files", ~r[1])
    /\ trace' = Append(trace, "check_config_files")
    /\ pc' = "check_optional_tools"
    /\ UNCHANGED <<version_info, importable, optional_count, outcome, details, ret>>

\* lines 167-213.  npm is run; mmdc is run when npm answered 0; playwright is
\* run unless an exception left the function before.
check_optional_tools ==
    /\ pc = "check_optional_tools"
    /\ \E npm \in Outcomes, mmdc \in Outcomes, playwright \in Outcomes :
        LET runMmdc == ToolCaught(npm) /\ MmdcGated(npm)
            runPlay == ToolCaught(npm) /\ (runMmdc => ToolCaught(mmdc))
            raised  == ~runPlay \/ ~ToolCaught(playwright)
            oMmdc   == IF runMmdc THEN mmdc ELSE "none"
            oPlay   == IF runPlay THEN playwright ELSE "none"
            started == <<"check_optional_tools", "npm">>
                         \o (IF runMmdc THEN <<"mmdc">> ELSE <<>>)
                         \o (IF runPlay THEN <<"playwright">> ELSE <<>>)
        IN
        \* the outcome of a command that is not run is not a choice
        /\ (~runMmdc => mmdc = "ok")
        /\ (~runPlay => playwright = "ok")
        /\ outcome' = [outcome EXCEPT !["npm"] = npm, !["mmdc"] = oMmdc,
                                      !["playwright"] = oPlay]
        /\ fails' = Mark(Mark(Mark(fails, "npm", ToolFails("npm", npm)),
                              "mmdc", runMmdc /\ ToolFails("mmdc", mmdc)),
                         "playwright", runPlay /\ ToolFails("playwright", playwright))
        /\ hints' = Mark(Mark(Mark(hints, "npm", ToolHint("npm", npm)),
                              "mmdc", runMmdc /\ ToolHint("mmdc", mmdc)),
                         "playwright", runPlay /\ ToolHint("playwright", playwright))
        /\ trace' = trace \o started
        /\ pc' = IF raised THEN "raised" ELSE "verdict"
    /\ UNCHANGED <<checks, version_info, importable, optional_count, config_exists,
                   config_report, details, ret>>

\* lines 233-247
verdict ==
    /\ pc = "verdict"
    /\ ret' = <<ExitCode(checks)>>
    /\ pc' = "done"
    /\ UNCHANGED <<checks, version_info, importable, optional_count, outcome,
                   config_exists, config_report, details, fails, hints, trace>>

Next ==
    \/ check_python_version
    \/ check_virtual_env
    \/ check_core_dependencies
    \/ check_metagpt
    \/ check_console_script
    \/ check_config_files
    \/ check_optional_tools
    \/ verdict

Spec == Init /\ [][Next]_vars

NextCore ==
    \/ check_python_version
    \/ check_virtual_env
    \/ check_core_dependencies

SpecCore == InitCore /\ [][NextCore]_vars

\* ---------------------------------------------------------------- claims

Probes ==
    {"check_python_version", "check_virtual_env", "check_package_import",
     "check_metagpt", "check_console_script", "check_config_files"}

\* the function has run (check_package_import runs inside check_core_dependencies)
Ran(f) ==
    IF f = "check_package_import" THEN "check_core_dependencies" \in Range(trace)
    ELSE f \in Range(trace)

Count(s, x) == Cardinality({i \in 1..Len(s) : s[i] = x})

Finished == pc \in {"done", "raised"}

\* line 251: sys.exit(main()); an exception that leaves main() ends the
\* process with status 1
ProcessExit == IF pc = "raised" THEN <<1>> ELSE ret

NoFaultPropagates == pc # "raised"

\* C3: mmdc is started only after npm returned exit code 0; when npm is not
\* found or returns non-zero, mmdc is not started and no failure is reported
\* for it.
MmdcGatedOnNpm ==
    /\ "mmdc" \in Range(trace) =>
          /\ outcome["npm"] = "ok"
          /\ \E i, j \in 1..Len(trace) : i < j /\ trace[i] = "npm" /\ trace[j] = "mmdc"
    /\ outcome["npm"] \in {"nonzero", "notfound"} =>
          /\ "mmdc" \notin Range(trace)
          /\ outcome["mmdc"] = "none"
          /\ "mmdc" \notin fails
          /\ "mmdc" \notin hints

NpmFailedMmdcSkipped ==
    /\ pc = "done"
    /\ outcome["npm"] = "nonzero"
    /\ "npm" \in fails
    /\ "playwright" \in Range(trace)
    /\ "mmdc" \notin Range(trace)

\* C4: check_python_version passes exactly when (major, minor) is
\* lexicographically at least (3, 9).
VersionPassIffAtLeastMinimum ==
    Len(checks) >= 1 =>
        (checks[1] <=> (\/ version_info[1] > MinMajor
                        \/ (version_info[1] = MinMajor /\ version_info[2] >= MinMinor)))

\* C5: check_console_script passes exactly when the command returned 0, and
\* the line it prints for a failure tells which of not found, timed out and
\* non-zero exit happened.
ConsoleFailureDistinguished ==
    outcome["metagpt"] # "none" =>
        /\ checks[5] <=> outcome["metagpt"] = "ok"
        /\ \A o \in Outcomes \ {outcome["metagpt"]} :
              details["check_console_script"] # ConsoleDetail(o)

CoreBatchStatus ==
    Len(checks) >= 3 =>
        /\ checks[3] <=> (Range(dependencies) \subseteq importable)
        /\ optional_count = Cardinality(Range(optional_deps) \cap importable)

RequiredPassNoOptional ==
    /\ Len(checks) >= 3
    /\ checks[3]
    /\ Range(optional_deps) \cap importable = {}
    /\ optional_count = 0

\* C8: check_config_files reports both locations, each by its own existence,
\* returns found exactly when at least one exists and prints the remediation
\* exactly when neither exists.
ConfigBothReported ==
    config_exists # <<>> =>
        /\ Len(config_report) = Len(config_locations)
        /\ \A i \in 1..Len(config_locations) :
              config_report[i] = (IF config_exists[i] THEN "Config found"
                                  ELSE "Config not found")
        /\ checks[6] <=> (\E i \in 1..Len(config_locations) : config_exists[i])
        /\ "check_config_files" \in hints <=>
              (\A i \in 1..Len(config_locations) : ~config_exists[i])

FirstConfigFoundSecondMissing ==
    /\ config_exists = <<TRUE, FALSE>>
    /\ config_report = <<"Config found", "Config not found">>
    /\ checks[6]
    /\ "check_config_files" \notin hints

\* C9: the checks start in declaration order, and when the run ends every
\* one of them except mmdc has been started exactly once.
DeclaredOrder ==
    <<"check_python_version", "check_virtual_env", "check_core_dependencies",
      "check_metagpt", "check_console_script", "check_config_files",
      "check_optional_tools", "npm", "playwright">>

WithoutMmdc == SelectSeq(trace, LAMBDA x : x # "mmdc")

EachProbeOnceInOrder ==
    /\ Len(WithoutMmdc) <= Len(DeclaredOrder)
    /\ WithoutMmdc = SubSeq(DeclaredOrder, 1, Len(WithoutMmdc))
    /\ Count(trace, "mmdc") <= 1
    /\ Finished => WithoutMmdc = DeclaredOrder

\* C10: once check_optional_tools has ended, in whatever way, the exit code
\* is the one the six collected checks give.
OptionalToolsKeepExitCode ==
    Finished => ProcessExit = <<ExitCode(checks)>>

====
